---- MODULE Spec2Model ----
(***************************************************************************)
(* Model of compacta.py: Huffman compaction of a list of dictionaries into *)
(* a binary container, and its decompaction.                               *)
(*                                                                         *)
(* A Python str is a sequence of one-character strings; bytes are a        *)
(* sequence of integers 0..255; a dict is a sequence of entries in         *)
(* insertion order.                                                        *)
(***************************************************************************)
EXTENDS Integers, Sequences, FiniteSets, TLC

VARIABLES
    pc,         \* position of the run
    lista,      \* lista_dicionarios given to compactar_lista
    arquivo,    \* bytes held by the file object
    ret_c,      \* value returned by compactar_lista
    ret_d,      \* tuple returned by descompactar_lista
    falha_w,    \* index of the arquivo.write call that raised OSError (0: none)
    falha_r,    \* index of the arquivo.read call that raised OSError (0: none)
    truncado,   \* the table blob of the file lost its last byte
    texto,      \* representacao_lista given to the internal functions
    heapA,      \* heap of one run of _construir_arvore_huffman
    heapB,      \* heap of a second run over the same frequencies
    codA,       \* code table of the first run
    codB,       \* code table of the second run
    bits,       \* texto_codificado
    codigo_huffman, \* code table given to the codec functions
    lido,       \* result of _ler_binario
    saida       \* result of the last internal function applied

vars == <<pc, lista, arquivo, ret_c, ret_d, falha_w, falha_r, truncado,
          texto, heapA, heapB, codA, codB, bits, codigo_huffman, lido,
          saida>>

-----------------------------------------------------------------------------
(* Bounds of the model.                                                    *)

MaxRegistros == 1
MaxTexto == 6
MaxTextoCodec == 2
MaxBits == 3

-----------------------------------------------------------------------------
(* Return codes.                                                           *)

SUCESSO == 0
ERRO_ARQUIVO == 1
ERRO_CODIFICACAO == 2
ERRO_DECODIFICACAO == 3
ERRO_CONSTRUCAO_ARVORE == 4
ERRO_FORMATO_DADOS == 5

-----------------------------------------------------------------------------
(* Characters and Python's ordering of strings.                            *)

Alfabeto ==
    {" ", "\"", "'", ",", "0", "1", ":", "F", "N", "T", "[", "\\", "]",
     "a", "b", "c", "d", "e", "f", "l", "n", "o", "r", "s", "t", "u",
     "{", "}"}

CodePoint(c) ==
    CASE c = " " -> 32   [] c = "\"" -> 34 [] c = "'" -> 39  [] c = "," -> 44
      [] c = "0" -> 48   [] c = "1" -> 49  [] c = ":" -> 58  [] c = "F" -> 70
      [] c = "N" -> 78   [] c = "T" -> 84  [] c = "[" -> 91  [] c = "\\" -> 92
      [] c = "]" -> 93   [] c = "a" -> 97  [] c = "b" -> 98  [] c = "c" -> 99
      [] c = "d" -> 100  [] c = "e" -> 101 [] c = "f" -> 102 [] c = "l" -> 108
      [] c = "n" -> 110  [] c = "o" -> 111 [] c = "r" -> 114 [] c = "s" -> 115
      [] c = "t" -> 116  [] c = "u" -> 117 [] c = "{" -> 123 [] c = "}" -> 125

CodePoints == {CodePoint(c) : c \in Alfabeto}

CharOf(n) == CHOOSE c \in Alfabeto : CodePoint(c) = n

Min2(a, b) == IF a < b THEN a ELSE b

\* x < y on Python strings: the first differing character decides, a proper
\* prefix is smaller.
RECURSIVE StrLessFrom(_, _, _)
StrLessFrom(x, y, i) ==
    IF i > Len(x) THEN i <= Len(y)
    ELSE IF i > Len(y) THEN FALSE
    ELSE IF x[i] # y[i] THEN CodePoint(x[i]) < CodePoint(y[i])
    ELSE StrLessFrom(x, y, i + 1)

StrLess(x, y) == StrLessFrom(x, y, 1)

\* [simbolo, codigo] < [simbolo, codigo] on Python lists.
ParLess(p, q) ==
    IF p.s # q.s THEN StrLess(p.s, q.s) ELSE StrLess(p.c, q.c)

RECURSIVE ParesLessFrom(_, _, _)
ParesLessFrom(x, y, i) ==
    IF i > Len(x) THEN i <= Len(y)
    ELSE IF i > Len(y) THEN FALSE
    ELSE IF x[i] # y[i] THEN ParLess(x[i], y[i])
    ELSE ParesLessFrom(x, y, i + 1)

\* Weight-only ordering of heap nodes: ties are left undecided.
NodeLessPeso(x, y) == x.w < y.w

\* [freq, par, par, ...] < [freq, par, par, ...] on Python lists, the
\* comparison heap.sort() uses.
NodeLess(x, y) ==
    IF x.w # y.w THEN x.w < y.w ELSE ParesLessFrom(x.pares, y.pares, 1)

-----------------------------------------------------------------------------
(* _calcular_frequencias: a dict symbol -> count, in order of first        *)
(* occurrence.                                                             *)

Conta(t, c) == Cardinality({i \in 1..Len(t) : t[i] = c})

\* Positions where a character occurs for the first time: the keys of the
\* dict, which keeps them in insertion order.
Primeiras(t) == {i \in 1..Len(t) : \A j \in 1..(i - 1) : t[j] # t[i]}

CalcularFrequencias(t) ==
    [k \in 1..Cardinality(Primeiras(t)) |->
        LET i == CHOOSE i \in Primeiras(t) :
                     Cardinality({j \in Primeiras(t) : j <= i}) = k
        IN  [s |-> <<t[i]>>, f |-> Conta(t, t[i])]]

-----------------------------------------------------------------------------
(* _construir_arvore_huffman.                                              *)

HeapInicial(freq) ==
    [k \in 1..Len(freq) |->
        [w |-> freq[k].f, pares |-> <<[s |-> freq[k].s, c |-> <<>>]>>]]

\* The bit is appended to the codes instead of put in front of them.
PrefixaNoFim(b, pares) ==
    [k \in 1..Len(pares) |-> [s |-> pares[k].s, c |-> Append(pares[k].c, b)]]

\* par[1] = bit + par[1] for every pair of a node.
Prefixa(b, pares) ==
    [k \in 1..Len(pares) |-> [s |-> pares[k].s, c |-> <<b>> \o pares[k].c]]

\* Both children get the prefix '0'.
FundeMesmoBit(lo, hi) ==
    [w |-> lo.w + hi.w,
     pares |-> Prefixa("0", lo.pares) \o Prefixa("0", hi.pares)]

\* The node appended by one iteration of the loop.
Funde(lo, hi) ==
    [w |-> lo.w + hi.w,
     pares |-> Prefixa("0", lo.pares) \o Prefixa("1", hi.pares)]

Remove(s, i) == [k \in 1..(Len(s) - 1) |-> IF k < i THEN s[k] ELSE s[k + 1]]

\* Positions heap.sort() may put first: no other node is smaller.
Minimos(h) ==
    {i \in 1..Len(h) : \A j \in 1..Len(h) : ~NodeLess(h[j], h[i])}

\* heap.sort() is stable: among the positions it may put first, the
\* earliest.
PrimeiroMin(h) == CHOOSE i \in Minimos(h) : \A j \in Minimos(h) : i <= j

\* heap.sort(): a node comes after the nodes smaller than it and, the sort
\* being stable, after the earlier nodes that do not compare.
SortHeap(h) ==
    LET ordem == [i \in 1..Len(h) |->
                    1 + Cardinality({j \in 1..Len(h) :
                            \/ NodeLess(h[j], h[i])
                            \/ (j < i /\ ~NodeLess(h[i], h[j]))})]
    IN  [k \in 1..Len(h) |-> h[CHOOSE i \in 1..Len(h) : ordem[i] = k]]

\* One iteration of the while loop, lo and hi being the positions of the two
\* nodes the sort puts first.
Passo(h, i, j) ==
    LET lo == h[i]
        r1 == Remove(h, i)
        hi == r1[j]
        r2 == Remove(r1, j)
        \* the sort leaves the remaining nodes in order
    IN  Append(SortHeap(r2), Funde(lo, hi))

RECURSIVE MergeLoop(_)
MergeLoop(h) ==
    IF Len(h) > 1
    THEN LET i == PrimeiroMin(h)
             j == PrimeiroMin(Remove(h, i))
         IN  MergeLoop(Passo(h, i, j))
    ELSE h

\* Key of the final sorted(): (len(codigo), [simbolo, codigo]).
ChaveLess(p, q) ==
    IF Len(p.c) # Len(q.c) THEN Len(p.c) < Len(q.c) ELSE ParLess(p, q)

RECURSIVE SortPares(_)
SortPares(ps) ==
    IF Len(ps) = 0 THEN <<>>
    ELSE LET i == CHOOSE i \in 1..Len(ps) :
                      /\ \A j \in 1..Len(ps) : ~ChaveLess(ps[j], ps[i])
                      /\ \A j \in 1..(i - 1) : ChaveLess(ps[i], ps[j])
         IN  <<ps[i]>> \o SortPares(Remove(ps, i))

\* The return statement: heap[0] raises IndexError on an empty heap.
Retorno(h) ==
    IF Len(h) = 0 THEN [err |-> "IndexError", arv |-> <<>>]
    ELSE [err |-> "", arv |-> SortPares(h[1].pares)]

ConstruirArvoreHuffman(freq) == Retorno(MergeLoop(HeapInicial(freq)))

-----------------------------------------------------------------------------
(* Python dicts: entries [s |-> key, c |-> value] in insertion order.      *)

Busca(tab, k) ==
    IF \E i \in 1..Len(tab) : tab[i].s = k
    THEN CHOOSE i \in 1..Len(tab) : tab[i].s = k
    ELSE 0

\* d[k] = v: a present key keeps its place and takes the new value.
DictPut(tab, k, v) ==
    IF Busca(tab, k) = 0 THEN Append(tab, [s |-> k, c |-> v])
    ELSE [i \in 1..Len(tab) |-> IF tab[i].s = k THEN [s |-> k, c |-> v]
                                ELSE tab[i]]

RECURSIVE DictDe(_, _, _)
DictDe(pares, i, acc) ==
    IF i > Len(pares) THEN acc
    ELSE DictDe(pares, i + 1, DictPut(acc, pares[i].s, pares[i].c))

\* _gerar_codigo_huffman: {simbolo: codigo for simbolo, codigo in arvore}.
GerarCodigoHuffman(arv) == DictDe(arv, 1, <<>>)

-----------------------------------------------------------------------------
(* _codificar_lista and _decodificar_texto.                                *)

\* A character without a code is skipped instead of raising.
RECURSIVE CodificaIgnorando(_, _, _, _)
CodificaIgnorando(t, tab, lo, hi) ==
    IF lo > hi THEN [err |-> "", bits |-> <<>>]
    ELSE IF lo = hi THEN
        [err |-> "",
         bits |-> IF Busca(tab, <<t[lo]>>) = 0 THEN <<>>
                  ELSE tab[Busca(tab, <<t[lo]>>)].c]
    ELSE LET m == (lo + hi) \div 2
         IN  [err |-> "",
              bits |-> CodificaIgnorando(t, tab, lo, m).bits
                       \o CodificaIgnorando(t, tab, m + 1, hi).bits]

\* The loop over the characters t[lo..hi]: the code of each is appended,
\* and a character that is no key of the dict raises ValueError.  The two
\* halves of the range are run one after the other.
RECURSIVE CodificaDe(_, _, _, _)
CodificaDe(t, tab, lo, hi) ==
    IF lo > hi THEN [err |-> "", bits |-> <<>>]
    ELSE IF lo = hi THEN
        (IF Busca(tab, <<t[lo]>>) = 0
         THEN [err |-> "ValueError", bits |-> <<>>]
         ELSE [err |-> "", bits |-> tab[Busca(tab, <<t[lo]>>)].c])
    ELSE LET m == (lo + hi) \div 2
             x == CodificaDe(t, tab, lo, m)
             y == CodificaDe(t, tab, m + 1, hi)
         IN  IF x.err # "" THEN x
             ELSE IF y.err # "" THEN y
             ELSE [err |-> "", bits |-> x.bits \o y.bits]

CodificarLista(t, tab) == CodificaDe(t, tab, 1, Len(t))

\* {codigo: simbolo for simbolo, codigo in codigo_huffman.items()}
RECURSIVE Inverte(_, _, _)
Inverte(tab, i, acc) ==
    IF i > Len(tab) THEN acc
    ELSE Inverte(tab, i + 1, DictPut(acc, tab[i].c, tab[i].s))

\* The for loop over the bits, from bit i with simbolo_atual empty: the
\* bits are accumulated up to the first bit j where they are a key of the
\* inverted dict; its symbol is emitted and the loop goes on from j + 1.
\* The result is the loop's locals when the bits are exhausted.
\* The length of the longest key of a dict: longer strings are no key.
MaiorChave(inv) ==
    IF Len(inv) = 0 THEN 0
    ELSE CHOOSE n \in {Len(inv[k].s) : k \in 1..Len(inv)} :
             \A k \in 1..Len(inv) : Len(inv[k].s) <= n

RECURSIVE DecLoop(_, _, _, _)
DecLoop(b, inv, i, out) ==
    LET casam == {j \in i..Min2(Len(b), i + MaiorChave(inv) - 1) :
                     Busca(inv, SubSeq(b, i, j)) # 0}
    IN  IF casam = {}
        THEN [simbolo_atual |-> SubSeq(b, i, Len(b)), texto |-> out]
        ELSE LET j == CHOOSE j \in casam : \A k \in casam : j <= k
             IN  DecLoop(b, inv, j + 1,
                         out \o inv[Busca(inv, SubSeq(b, i, j))].c)

DecLocais(b, tab) == DecLoop(b, Inverte(tab, 1, <<>>), 1, <<>>)

DecodificarTexto(b, tab) == DecLocais(b, tab).texto

-----------------------------------------------------------------------------
(* Integers and bytes.  The length fields are machine-sized numbers.  The  *)
(* payload is one unbounded Python int: it is held as its binary digits,   *)
(* most significant first, without leading zeros (no digit for zero).      *)

\* n.to_bytes(len, 'big'), for n < 256^len.
RECURSIVE ToBytesBig(_, _)
ToBytesBig(n, len) ==
    IF len = 0 THEN <<>>
    ELSE Append(ToBytesBig(n \div 256, len - 1), n % 256)

\* n.to_bytes(len, 'little'), for n < 256^len.
RECURSIVE ToBytesLittle(_, _)
ToBytesLittle(n, len) ==
    IF len = 0 THEN <<>>
    ELSE <<n % 256>> \o ToBytesLittle(n \div 256, len - 1)

RECURSIVE FromBytesLittle(_)
FromBytesLittle(b) ==
    IF Len(b) = 0 THEN 0
    ELSE b[1] + 256 * FromBytesLittle(SubSeq(b, 2, Len(b)))

RECURSIVE SemZeros(_)
SemZeros(s) ==
    IF Len(s) > 0 /\ s[1] = "0" THEN SemZeros(SubSeq(s, 2, Len(s))) ELSE s

\* int(s, 2) of a non-empty string of '0' and '1'.
IntBase2(s) == SemZeros(s)

\* s.zfill(width) of a string without sign.
RECURSIVE Zfill(_, _)
Zfill(s, width) == IF Len(s) >= width THEN s ELSE Zfill(<<"0">> \o s, width)

\* The value of eight binary digits, and the eight digits of a byte.
RECURSIVE Valor(_)
Valor(s) ==
    IF Len(s) = 0 THEN 0
    ELSE 2 * Valor(SubSeq(s, 1, Len(s) - 1)) + (IF s[Len(s)] = "1" THEN 1 ELSE 0)

RECURSIVE Digitos2(_, _)
Digitos2(n, k) ==
    IF k = 0 THEN <<>>
    ELSE Append(Digitos2(n \div 2, k - 1), IF n % 2 = 1 THEN "1" ELSE "0")

\* n.to_bytes(len, 'big') of an int given by its digits, for n < 256^len.
BigToBytes(n, len) ==
    LET d == Zfill(n, 8 * len)
    IN  [k \in 1..len |-> Valor(SubSeq(d, 8 * k - 7, 8 * k))]

\* int.from_bytes(b, 'big'), as digits.
RECURSIVE TodosDigitos(_, _)
TodosDigitos(b, i) ==
    IF i > Len(b) THEN <<>> ELSE Digitos2(b[i], 8) \o TodosDigitos(b, i + 1)

BigFromBytes(b) == SemZeros(TodosDigitos(b, 1))

\* bin(n)[2:] of an int given by its digits.
Bin(n) == IF Len(n) = 0 THEN <<"0">> ELSE n

\* The digits as bin() gives them, without the zfill.
BitsSemZfill(valor, tamanho) == Bin(BigFromBytes(valor))

\* bin(int.from_bytes(valor, 'big'))[2:].zfill(tamanho)
BitsDe(valor, tamanho) == Zfill(Bin(BigFromBytes(valor)), tamanho)

\* arquivo.read(n) at position pos: at most n bytes, fewer at the end.
Read(arq, pos, n) == SubSeq(arq, pos + 1, Min2(pos + n, Len(arq)))

-----------------------------------------------------------------------------
(* Python values: str, int, bool, None, float nan, list and dict, all as    *)
(* records of one shape.  s is the text of a str, n the number of an int    *)
(* (1 or 0 for a bool), keys the keys of a dict in insertion order, items   *)
(* the elements of a list or the values of a dict.                         *)

Val(t, s, n, keys, items) ==
    [t |-> t, s |-> s, n |-> n, keys |-> keys, items |-> items]

VStr(s) == Val("str", s, 0, <<>>, <<>>)
VInt(n) == Val("int", <<>>, n, <<>>, <<>>)
VBool(b) == Val("bool", <<>>, IF b THEN 1 ELSE 0, <<>>, <<>>)
VNone == Val("None", <<>>, 0, <<>>, <<>>)
VNaN == Val("nan", <<>>, 0, <<>>, <<>>)
VList(items) == Val("list", <<>>, 0, <<>>, items)
VDict(keys, items) == Val("dict", <<>>, 0, keys, items)

\* d[k] = v on a dict value.
DictSet(d, k, v) ==
    IF \E i \in 1..Len(d.keys) : d.keys[i] = k
    THEN VDict(d.keys, [i \in 1..Len(d.keys) |->
                          IF d.keys[i] = k THEN v ELSE d.items[i]])
    ELSE VDict(Append(d.keys, k), Append(d.items, v))

-----------------------------------------------------------------------------
(* str(lista_dicionarios): Python's repr of the values.                    *)

Tem(s, c) == \E i \in 1..Len(s) : s[i] = c

RECURSIVE Escapa(_, _, _)
Escapa(s, i, q) ==
    IF i > Len(s) THEN <<>>
    ELSE (IF s[i] = q \/ s[i] = "\\" THEN <<"\\", s[i]>> ELSE <<s[i]>>)
         \o Escapa(s, i + 1, q)

\* repr of a str: single quotes, unless the text holds a single quote and no
\* double quote; the quote in use and the backslash are escaped.
ReprStr(s) ==
    LET q == IF Tem(s, "'") /\ ~Tem(s, "\"") THEN "\"" ELSE "'"
    IN  <<q>> \o Escapa(s, 1, q) \o <<q>>

\* Decimal digits of a natural number.
RECURSIVE Decimal(_)
Decimal(n) ==
    IF n < 10 THEN <<CASE n = 0 -> "0" [] n = 1 -> "1">>
    ELSE Decimal(n \div 10) \o Decimal(n % 10)

RECURSIVE PyRepr(_)
RECURSIVE ReprItens(_, _)
RECURSIVE ReprEntradas(_, _)

ReprItens(items, i) ==
    IF i > Len(items) THEN <<>>
    ELSE (IF i > 1 THEN <<",", " ">> ELSE <<>>)
         \o PyRepr(items[i]) \o ReprItens(items, i + 1)

ReprEntradas(d, i) ==
    IF i > Len(d.keys) THEN <<>>
    ELSE (IF i > 1 THEN <<",", " ">> ELSE <<>>)
         \o ReprStr(d.keys[i]) \o <<":", " ">> \o PyRepr(d.items[i])
         \o ReprEntradas(d, i + 1)

PyRepr(v) ==
    CASE v.t = "str" -> ReprStr(v.s)
      [] v.t = "int" -> Decimal(v.n)
      [] v.t = "bool" -> IF v.n = 1 THEN <<"T", "r", "u", "e">>
                         ELSE <<"F", "a", "l", "s", "e">>
      [] v.t = "None" -> <<"N", "o", "n", "e">>
      [] v.t = "nan" -> <<"n", "a", "n">>
      [] v.t = "list" -> <<"[">> \o ReprItens(v.items, 1) \o <<"]">>
      [] v.t = "dict" -> <<"{">> \o ReprEntradas(v, 1) \o <<"}">>

-----------------------------------------------------------------------------
(* json.dumps of a dict of str to str, and json.loads.  Numbers are the    *)
(* integers written with the digits of the alphabet.                       *)

RECURSIVE JsonEscapa(_, _)
JsonEscapa(s, i) ==
    IF i > Len(s) THEN <<>>
    ELSE (IF s[i] = "\"" \/ s[i] = "\\" THEN <<"\\", s[i]>> ELSE <<s[i]>>)
         \o JsonEscapa(s, i + 1)

JsonStr(s) == <<"\"">> \o JsonEscapa(s, 1) \o <<"\"">>

RECURSIVE JsonEntradas(_, _)
JsonEntradas(tab, i) ==
    IF i > Len(tab) THEN <<>>
    ELSE (IF i > 1 THEN <<",", " ">> ELSE <<>>)
         \o JsonStr(tab[i].s) \o <<":", " ">> \o JsonStr(tab[i].c)
         \o JsonEntradas(tab, i + 1)

JsonDumps(tab) == <<"{">> \o JsonEntradas(tab, 1) \o <<"}">>

Falha == [ok |-> FALSE, val |-> VNone, pos |-> 0]
Achou(v, p) == [ok |-> TRUE, val |-> v, pos |-> p]

Em(s, i) == IF i >= 1 /\ i <= Len(s) THEN s[i] ELSE "EOF"

Casa(s, i, lit) ==
    i + Len(lit) - 1 <= Len(s) /\ SubSeq(s, i, i + Len(lit) - 1) = lit

RECURSIVE SkipWs(_, _)
SkipWs(s, i) == IF Em(s, i) = " " THEN SkipWs(s, i + 1) ELSE i

\* The text of a string, from the character after its opening quote.
RECURSIVE ParseStr(_, _, _)
ParseStr(s, i, acc) ==
    CASE Em(s, i) = "EOF" -> Falha
      [] Em(s, i) = "\"" -> Achou(VStr(acc), i + 1)
      [] Em(s, i) = "\\" ->
           IF Em(s, i + 1) \in {"\"", "\\"}
           THEN ParseStr(s, i + 2, Append(acc, s[i + 1]))
           ELSE Falha
      [] OTHER -> ParseStr(s, i + 1, Append(acc, s[i]))

Digitos == {"0", "1"}

RECURSIVE ParseDigitos(_, _, _)
ParseDigitos(s, i, n) ==
    IF Em(s, i) \in Digitos
    THEN ParseDigitos(s, i + 1, 10 * n + (IF s[i] = "1" THEN 1 ELSE 0))
    ELSE Achou(VInt(n), i)

RECURSIVE ParseValue(_, _)
RECURSIVE ParseItens(_, _, _)
RECURSIVE ParseEntradas(_, _, _)

\* After '[' or ',': a value, then ',' or ']'.
ParseItens(s, i, acc) ==
    LET r == ParseValue(s, i)
        k == SkipWs(s, r.pos)
    IN  IF ~r.ok THEN Falha
        ELSE IF Em(s, k) = "," THEN
            ParseItens(s, SkipWs(s, k + 1), Append(acc, r.val))
        ELSE IF Em(s, k) = "]" THEN Achou(VList(Append(acc, r.val)), k + 1)
        ELSE Falha

\* After '{' or ',': "key", ':', a value, then ',' or '}'.
ParseEntradas(s, i, d) ==
    IF Em(s, i) # "\"" THEN Falha
    ELSE LET key == ParseStr(s, i + 1, <<>>)
             c == SkipWs(s, key.pos)
             r == ParseValue(s, SkipWs(s, c + 1))
             k == SkipWs(s, r.pos)
         IN  IF ~key.ok \/ Em(s, c) # ":" THEN Falha
             ELSE IF ~r.ok THEN Falha
             ELSE IF Em(s, k) = "," THEN
                 ParseEntradas(s, SkipWs(s, k + 1), DictSet(d, key.val.s, r.val))
             ELSE IF Em(s, k) = "}" THEN
                 Achou(DictSet(d, key.val.s, r.val), k + 1)
             ELSE Falha

ParseValue(s, i) ==
    CASE Em(s, i) = "\"" -> ParseStr(s, i + 1, <<>>)
      [] Em(s, i) = "{" ->
           IF Em(s, SkipWs(s, i + 1)) = "}"
           THEN Achou(VDict(<<>>, <<>>), SkipWs(s, i + 1) + 1)
           ELSE ParseEntradas(s, SkipWs(s, i + 1), VDict(<<>>, <<>>))
      [] Em(s, i) = "[" ->
           IF Em(s, SkipWs(s, i + 1)) = "]"
           THEN Achou(VList(<<>>), SkipWs(s, i + 1) + 1)
           ELSE ParseItens(s, SkipWs(s, i + 1), <<>>)
      [] Em(s, i) = "n" /\ Casa(s, i, <<"n", "u", "l", "l">>) ->
           Achou(VNone, i + 4)
      [] Em(s, i) = "t" /\ Casa(s, i, <<"t", "r", "u", "e">>) ->
           Achou(VBool(TRUE), i + 4)
      [] Em(s, i) = "f" /\ Casa(s, i, <<"f", "a", "l", "s", "e">>) ->
           Achou(VBool(FALSE), i + 5)
      [] Em(s, i) = "N" /\ Casa(s, i, <<"N", "a", "N">>) ->
           Achou(VNaN, i + 3)
      [] Em(s, i) = "0" -> Achou(VInt(0), i + 1)
      [] Em(s, i) = "1" -> ParseDigitos(s, i, 0)
      [] OTHER -> Falha

\* json.loads: one value between optional blanks, nothing after it.
JsonLoads(s) ==
    LET r == ParseValue(s, SkipWs(s, 1))
    IN  IF r.ok /\ SkipWs(s, r.pos) = Len(s) + 1
        THEN [err |-> "", val |-> r.val]
        ELSE [err |-> "JSONDecodeError", val |-> VNone]

\* texto.replace("'", '"')
Replace(s) == [i \in 1..Len(s) |-> IF s[i] = "'" THEN "\"" ELSE s[i]]

\* _texto_para_lista: every failure leaves as a ValueError.
TextoParaLista(t) ==
    LET r == JsonLoads(Replace(t))
    IN  IF r.err # "" THEN [err |-> "ValueError", val |-> VList(<<>>)]
        ELSE IF r.val.t # "list" THEN [err |-> "ValueError", val |-> VList(<<>>)]
        ELSE IF \E i \in 1..Len(r.val.items) : r.val.items[i].t # "dict"
             THEN [err |-> "ValueError", val |-> VList(<<>>)]
        ELSE [err |-> "", val |-> r.val]

-----------------------------------------------------------------------------
(* zlib.compress and zlib.decompress.  The deflate coding is an opaque     *)
(* lossless transform; the stream is modelled as zlib's stored form: a     *)
(* two-byte header, one final stored block (length and its complement),    *)
(* and the Adler-32 checksum of the data.                                  *)

\* Adler-32: a is 1 plus the sum of the bytes, b the sum of the successive
\* values of a, both modulo 65521.
RECURSIVE Soma(_, _, _, _)
Soma(d, lo, hi, pond) ==
    IF lo > hi THEN 0
    ELSE IF lo = hi THEN (IF pond THEN (Len(d) - lo + 1) * d[lo] ELSE d[lo])
    ELSE LET m == (lo + hi) \div 2
         IN  (Soma(d, lo, m, pond) + Soma(d, m + 1, hi, pond)) % 65521

Adler32(d) ==
    ToBytesBig((Len(d) + Soma(d, 1, Len(d), TRUE)) % 65521, 2)
        \o ToBytesBig((1 + Soma(d, 1, Len(d), FALSE)) % 65521, 2)

Compress(d) ==
    <<120, 1, 1>> \o ToBytesLittle(Len(d), 2)
        \o ToBytesLittle(65535 - Len(d), 2) \o d \o Adler32(d)

\* zlib.error on a stream that is cut short or whose header, length or
\* checksum is wrong; bytes after the end of the stream are ignored.
Decompress(b) ==
    IF Len(b) < 7 THEN [err |-> "zlib.error", data |-> <<>>]
    ELSE LET n == FromBytesLittle(SubSeq(b, 4, 5))
             d == SubSeq(b, 8, 7 + n)
         IN  IF \/ b[1] # 120 \/ (b[1] * 256 + b[2]) % 31 # 0 \/ b[3] # 1
                \/ FromBytesLittle(SubSeq(b, 6, 7)) # 65535 - n
                \/ Len(b) < 7 + n + 4
                \/ SubSeq(b, 8 + n, 11 + n) # Adler32(d)
             THEN [err |-> "zlib.error", data |-> <<>>]
             ELSE [err |-> "", data |-> d]

\* str.encode('utf-8') of ASCII text.
Utf8Encode(s) == [i \in 1..Len(s) |-> CodePoint(s[i])]

\* bytes.decode('utf-8'); a stream that decompresses gives the bytes that
\* were compressed, which are characters of the alphabet.
Utf8Decode(b) ==
    IF \A i \in 1..Len(b) : b[i] \in CodePoints
    THEN [err |-> "", s |-> [i \in 1..Len(b) |-> CharOf(b[i])]]
    ELSE [err |-> "UnicodeDecodeError", s |-> <<>>]

-----------------------------------------------------------------------------
(* _escrever_binario and _ler_binario.                                     *)

NumEscritas == 4
NumLeituras == 4

\* n.to_bytes(len, ...) raises OverflowError.
RECURSIVE Excede(_, _)
Excede(n, len) == IF len = 0 THEN n > 0 ELSE Excede(n \div 256, len - 1)

\* _escrever_binario, the write call number f raising OSError (0: none).
\* escrito: the bytes the file has received when the function ends.
EscreverBinario(b, tab, f) ==
    LET tamanho == Len(b)
        w1 == ToBytesLittle(tamanho, 4)
        w2 == BigToBytes(IntBase2(b), (tamanho + 7) \div 8)
        comp == Compress(Utf8Encode(JsonDumps(tab)))
        w3 == ToBytesLittle(Len(comp), 4)
    IN  IF Excede(tamanho, 4)
            THEN [err |-> "OverflowError", escrito |-> <<>>]
        ELSE IF f = 1 THEN [err |-> "RuntimeError", escrito |-> <<>>]
        ELSE IF tamanho = 0 THEN [err |-> "ValueError", escrito |-> w1]
        ELSE IF f = 2 THEN [err |-> "RuntimeError", escrito |-> w1]
        ELSE IF f = 3 THEN [err |-> "RuntimeError", escrito |-> w1 \o w2]
        ELSE IF f = 4
            THEN [err |-> "RuntimeError", escrito |-> w1 \o w2 \o w3]
        ELSE [err |-> "", escrito |-> w1 \o w2 \o w3 \o comp]

\* _ler_binario, the read call number f raising OSError (0: none).
LerBinario(arq, f) ==
    LET r1 == Read(arq, 0, 4)
        tamanho == FromBytesLittle(r1)
        num_bytes == (tamanho + 7) \div 8
        r2 == Read(arq, Len(r1), num_bytes)
        texto_codificado == BitsDe(r2, tamanho)
        r3 == Read(arq, Len(r1) + Len(r2), 4)
        tamanho_comprimido == FromBytesLittle(r3)
        r4 == Read(arq, Len(r1) + Len(r2) + Len(r3), tamanho_comprimido)
        z == Decompress(r4)
        u == Utf8Decode(z.data)
        j == JsonLoads(u.s)
        erro(e) == [err |-> e, bits |-> <<>>, cod |-> VNone]
    IN  IF f # 0 THEN erro("RuntimeError")
        ELSE IF z.err # "" THEN erro(z.err)
        ELSE IF u.err # "" THEN erro(u.err)
        ELSE IF j.err # "" THEN erro("ValueError")
        ELSE [err |-> "", bits |-> texto_codificado, cod |-> j.val]

\* codigo_huffman.items() of what json.loads returned: AttributeError when
\* it is no dict, TypeError when a value cannot be a dict key.  A value that
\* is no str is a key no string of bits equals.
TabelaDe(v) ==
    IF v.t # "dict" THEN [err |-> "AttributeError", tab |-> <<>>]
    ELSE IF \E i \in 1..Len(v.items) : v.items[i].t \in {"list", "dict"}
        THEN [err |-> "TypeError", tab |-> <<>>]
    ELSE [err |-> "",
          tab |-> [i \in 1..Len(v.keys) |->
                      [s |-> v.keys[i],
                       c |-> IF v.items[i].t = "str" THEN v.items[i].s
                             ELSE <<"#">>]]]

-----------------------------------------------------------------------------
(* compactar_lista and descompactar_lista.                                 *)

EhOSError(e) == e \in {"OSError"}
EhValueError(e) == e \in {"ValueError", "JSONDecodeError", "UnicodeDecodeError"}

\* The except clauses of compactar_lista.
CodigoCompactar(e) ==
    IF e = "" THEN SUCESSO
    ELSE IF EhOSError(e) THEN ERRO_ARQUIVO
    ELSE IF EhValueError(e) THEN ERRO_CODIFICACAO
    ELSE ERRO_CODIFICACAO

\* The except clauses of descompactar_lista.
CodigoDescompactar(e) ==
    IF e = "" THEN SUCESSO
    ELSE IF EhOSError(e) THEN ERRO_ARQUIVO
    ELSE IF EhValueError(e) THEN ERRO_DECODIFICACAO
    ELSE ERRO_DECODIFICACAO

CompactarLista(l, f) ==
    LET lista_string == PyRepr(l)
        frequencias == CalcularFrequencias(lista_string)
        arvore == ConstruirArvoreHuffman(frequencias)
        codigo == GerarCodigoHuffman(arvore.arv)
        cod == CodificarLista(lista_string, codigo)
        w == EscreverBinario(cod.bits, codigo, f)
        fim(e, escrito) ==
            [ret |-> CodigoCompactar(e), exc |-> e, escrito |-> escrito]
    IN  IF arvore.err # "" THEN fim(arvore.err, <<>>)
        ELSE IF cod.err # "" THEN fim(cod.err, <<>>)
        ELSE fim(w.err, w.escrito)

DescompactarLista(arq, f) ==
    LET r == LerBinario(arq, f)
        t == TabelaDe(r.cod)
        texto_decodificado == DecodificarTexto(r.bits, t.tab)
        l == TextoParaLista(texto_decodificado)
        fim(e, v) == [cod |-> CodigoDescompactar(e), exc |-> e, val |-> v]
    IN  IF r.err # "" THEN fim(r.err, VList(<<>>))
        ELSE IF t.err # "" THEN fim(t.err, VList(<<>>))
        ELSE IF l.err # "" THEN fim(l.err, VList(<<>>))
        ELSE fim("", l.val)

-----------------------------------------------------------------------------
(* Inputs.                                                                 *)

SeqAte(S, n) == UNION {[1..k -> S] : k \in 0..n}

Chave == <<"a">>

Valores ==
    {VStr(<<"b">>), VStr(<<"d", "'">>), VInt(1), VInt(10), VBool(TRUE),
     VNone, VList(<<VInt(0), VBool(FALSE)>>),
     VDict(<<<<"b">>>>, <<VStr(<<"b">>)>>)}

Registros ==
    {VDict(<<>>, <<>>), VDict(<<Chave, <<"b">>>>, <<VInt(1), VStr(<<"a">>)>>)}
    \cup {VDict(<<Chave>>, <<v>>) : v \in Valores}

Listas == {VList(r) : r \in SeqAte(Registros, MaxRegistros)}

AlfaTexto == {"a", "b", "\""}

Textos == SeqAte(AlfaTexto, MaxTexto)

\* Code tables given from outside: any codes, for some of the symbols.
AlfaCodec == {"a", "b", "c"}

TextosCodec == SeqAte(AlfaCodec, MaxTextoCodec)

Codigos ==
    {<<"0">>, <<"1">>, <<"0", "0">>, <<"0", "1">>, <<"1", "0">>,
     <<"1", "1">>}

Tabelas ==
    {<<>>}
    \cup {<<[s |-> <<x>>, c |-> c1]>> : x \in {"a", "b"}, c1 \in Codigos}
    \cup {<<[s |-> <<xy[1]>>, c |-> c1], [s |-> <<xy[2]>>, c |-> c2]>> :
            xy \in {<<"a", "b">>, <<"b", "a">>},
            c1 \in Codigos, c2 \in Codigos}

SeqBits == SeqAte({"0", "1"}, MaxBits)

\* The dict json.loads returns for a table.
ValorDe(tab) ==
    VDict([i \in 1..Len(tab) |-> tab[i].s],
          [i \in 1..Len(tab) |-> VStr(tab[i].c)])

-----------------------------------------------------------------------------
(* State.                                                                  *)

SemRetC == [ret |-> SUCESSO, exc |-> ""]
SemRetD == [cod |-> SUCESSO, exc |-> "", val |-> VList(<<>>)]
SemCod == [feito |-> FALSE, err |-> "", arv |-> <<>>]
SemBits == [err |-> "", bits |-> <<>>]
SemLido == [err |-> "", bits |-> <<>>, cod |-> VNone]
SemSaida == [err |-> "", texto |-> <<>>, simbolo_atual |-> <<>>]

InitComum ==
    /\ arquivo = <<>>
    /\ ret_c = SemRetC
    /\ ret_d = SemRetD
    /\ falha_w = 0
    /\ falha_r = 0
    /\ truncado = "nao"
    /\ codA = SemCod
    /\ codB = SemCod
    /\ bits = SemBits
    /\ saida = SemSaida

-----------------------------------------------------------------------------
(* The public functions, on a list of records.                             *)

InitLista ==
    /\ InitComum
    /\ pc = "inicio"
    /\ lista \in Listas
    /\ texto = <<>>
    /\ heapA = <<>>
    /\ heapB = <<>>
    /\ codigo_huffman = <<>>
    /\ lido = SemLido

\* compactar_lista(lista, arquivo), the write call number f raising OSError.
Compactar(f) ==
    /\ pc = "inicio"
    /\ LET r == CompactarLista(lista, f)
       IN  /\ arquivo' = arquivo \o r.escrito
           /\ ret_c' = [ret |-> r.ret, exc |-> r.exc]
    /\ falha_w' = f
    /\ pc' = "compactado"
    /\ UNCHANGED <<lista, ret_d, falha_r, truncado, texto, heapA, heapB,
                   codA, codB, bits, codigo_huffman, lido, saida>>

\* The position of the table_len field of a container.
PosTableLen(arq) == 4 + (FromBytesLittle(SubSeq(arq, 1, 4)) + 7) \div 8

\* The stored container loses the last byte of its table_blob; com_len:
\* the table_len field is lowered with it.
Truncar(com_len) ==
    /\ pc = "compactado"
    /\ ret_c.ret = SUCESSO
    /\ truncado = "nao"
    /\ LET p == PosTableLen(arquivo)
           n == FromBytesLittle(SubSeq(arquivo, p + 1, p + 4))
       IN  arquivo' =
               SubSeq(arquivo, 1, p)
               \o (IF com_len THEN ToBytesLittle(n - 1, 4)
                   ELSE SubSeq(arquivo, p + 1, p + 4))
               \o SubSeq(arquivo, p + 5, Len(arquivo) - 1)
    /\ truncado' = IF com_len THEN "blob_e_len" ELSE "blob"
    /\ UNCHANGED <<pc, lista, ret_c, ret_d, falha_w, falha_r, texto, heapA,
                   heapB, codA, codB, bits, codigo_huffman, lido, saida>>

\* descompactar_lista(arquivo), the read call number f raising OSError.
Descompactar(f) ==
    /\ pc = "compactado"
    /\ ret_d' = DescompactarLista(arquivo, f)
    /\ falha_r' = f
    /\ pc' = "descompactado"
    /\ UNCHANGED <<lista, arquivo, ret_c, falha_w, truncado, texto, heapA,
                   heapB, codA, codB, bits, codigo_huffman, lido, saida>>

NextLista ==
    \/ \E f \in 0..NumEscritas : Compactar(f)
    \/ \E com_len \in BOOLEAN : Truncar(com_len)
    \/ \E f \in 0..NumLeituras : Descompactar(f)

SpecLista == InitLista /\ [][NextLista]_vars

-----------------------------------------------------------------------------
(* The internal functions, on a text: two runs of the tree builder over    *)
(* the frequencies of the text, then the codec and the container.          *)

InitArvore ==
    /\ InitComum
    /\ pc = "arvore"
    /\ lista = VList(<<>>)
    /\ texto \in Textos
    /\ heapA = HeapInicial(CalcularFrequencias(texto))
    /\ heapB = HeapInicial(CalcularFrequencias(texto))
    /\ codigo_huffman = <<>>
    /\ lido = SemLido

\* One iteration of the while loop of the first run: the sort puts two
\* smallest nodes first, they are popped and merged.
IterarA ==
    /\ pc = "arvore"
    /\ ~codA.feito
    /\ Len(heapA) > 1
    /\ \E i \in Minimos(heapA) :
        \E j \in Minimos(Remove(heapA, i)) :
            heapA' = Passo(heapA, i, j)
    /\ UNCHANGED <<pc, lista, arquivo, ret_c, ret_d, falha_w, falha_r,
                   truncado, texto, heapB, codA, codB, bits, codigo_huffman,
                   lido, saida>>

\* The return statement of the first run.
RetornarA ==
    /\ pc = "arvore"
    /\ ~codA.feito
    /\ Len(heapA) <= 1
    /\ codA' = [feito |-> TRUE, err |-> Retorno(heapA).err,
                arv |-> Retorno(heapA).arv]
    /\ UNCHANGED <<pc, lista, arquivo, ret_c, ret_d, falha_w, falha_r,
                   truncado, texto, heapA, heapB, codB, bits, codigo_huffman,
                   lido, saida>>

\* The same two steps of the second run, which follows the first.
IterarB ==
    /\ pc = "arvore"
    /\ codA.feito
    /\ ~codB.feito
    /\ Len(heapB) > 1
    /\ \E i \in Minimos(heapB) :
        \E j \in Minimos(Remove(heapB, i)) :
            heapB' = Passo(heapB, i, j)
    /\ UNCHANGED <<pc, lista, arquivo, ret_c, ret_d, falha_w, falha_r,
                   truncado, texto, heapA, codA, codB, bits, codigo_huffman,
                   lido, saida>>

RetornarB ==
    /\ pc = "arvore"
    /\ codA.feito
    /\ ~codB.feito
    /\ Len(heapB) <= 1
    /\ codB' = [feito |-> TRUE, err |-> Retorno(heapB).err,
                arv |-> Retorno(heapB).arv]
    /\ UNCHANGED <<pc, lista, arquivo, ret_c, ret_d, falha_w, falha_r,
                   truncado, texto, heapA, heapB, codA, bits, codigo_huffman,
                   lido, saida>>

\* _gerar_codigo_huffman on the tree of the first run, once both are built.
Gerar ==
    /\ pc = "arvore"
    /\ codA.feito
    /\ codB.feito
    /\ codA.err = ""
    /\ codigo_huffman' = GerarCodigoHuffman(codA.arv)
    /\ pc' = "gerado"
    /\ UNCHANGED <<lista, arquivo, ret_c, ret_d, falha_w, falha_r, truncado,
                   texto, heapA, heapB, codA, codB, bits, lido, saida>>

\* _codificar_lista(texto, codigo_huffman)
Codificar ==
    /\ pc = "gerado"
    /\ bits' = CodificarLista(texto, codigo_huffman)
    /\ pc' = "codificado"
    /\ UNCHANGED <<lista, arquivo, ret_c, ret_d, falha_w, falha_r, truncado,
                   texto, heapA, heapB, codA, codB, codigo_huffman, lido,
                   saida>>

\* _escrever_binario(bits, codigo_huffman, arquivo), the write call number
\* f raising OSError.
Escrever(f) ==
    /\ pc = "codificado"
    /\ bits.err = ""
    /\ LET w == EscreverBinario(bits.bits, codigo_huffman, f)
       IN  /\ arquivo' = arquivo \o w.escrito
           /\ saida' = [err |-> w.err, texto |-> <<>>,
                        simbolo_atual |-> <<>>]
    /\ falha_w' = f
    /\ pc' = "escrito"
    /\ UNCHANGED <<lista, ret_c, ret_d, falha_r, truncado, texto, heapA,
                   heapB, codA, codB, bits, codigo_huffman, lido>>

\* _ler_binario(arquivo) on a container that was written whole, the read
\* call number f raising OSError.
Ler(f) ==
    /\ pc = "escrito"
    /\ saida.err = ""
    /\ lido' = LerBinario(arquivo, f)
    /\ falha_r' = f
    /\ pc' = "lido"
    /\ UNCHANGED <<lista, arquivo, ret_c, ret_d, falha_w, truncado, texto,
                   heapA, heapB, codA, codB, bits, codigo_huffman, saida>>

\* _decodificar_texto(texto_codificado, codigo_huffman) on what was read.
Decodificar ==
    /\ pc = "lido"
    /\ lido.err = ""
    /\ TabelaDe(lido.cod).err = ""
    /\ LET d == DecLocais(lido.bits, TabelaDe(lido.cod).tab)
       IN  saida' = [err |-> "", texto |-> d.texto,
                     simbolo_atual |-> d.simbolo_atual]
    /\ pc' = "decodificado"
    /\ UNCHANGED <<lista, arquivo, ret_c, ret_d, falha_w, falha_r, truncado,
                   texto, heapA, heapB, codA, codB, bits, codigo_huffman,
                   lido>>

NextArvore ==
    \/ IterarA
    \/ RetornarA
    \/ IterarB
    \/ RetornarB
    \/ Gerar
    \/ Codificar
    \/ \E f \in 0..NumEscritas : Escrever(f)
    \/ \E f \in 0..NumLeituras : Ler(f)
    \/ Decodificar

SpecArvore == InitArvore /\ [][NextArvore]_vars

-----------------------------------------------------------------------------
(* The codec functions on a text and a code table, or a string of bits and *)
(* a code table, given from outside.                                       *)

InitCodec ==
    /\ InitComum
    /\ lista = VList(<<>>)
    /\ heapA = <<>>
    /\ heapB = <<>>
    /\ \/ /\ pc = "gerado"
          /\ texto \in TextosCodec
          /\ codigo_huffman \in Tabelas
          /\ lido = SemLido
       \/ /\ pc = "lido"
          /\ texto = <<>>
          /\ codigo_huffman = <<>>
          /\ \E b \in SeqBits, tab \in Tabelas :
                lido = [err |-> "", bits |-> b, cod |-> ValorDe(tab)]

NextCodec ==
    \/ Codificar
    \/ Decodificar

SpecCodec == InitCodec /\ [][NextCodec]_vars

-----------------------------------------------------------------------------
(* Properties.                                                             *)

Simbolos(t) == {t[i] : i \in 1..Len(t)}

Prefixo(x, y) == Len(x) <= Len(y) /\ SubSeq(y, 1, Len(x)) = x

LivreDePrefixo(pares) ==
    \A i, j \in 1..Len(pares) :
        i # j => ~Prefixo(pares[i].c, pares[j].c)

\* A str of the value holds a quote or a backslash.
RECURSIVE QuebraAspas(_)
QuebraAspas(v) ==
    \/ v.t = "str" /\ (Tem(v.s, "'") \/ Tem(v.s, "\"") \/ Tem(v.s, "\\"))
    \/ \E i \in 1..Len(v.keys) :
           Tem(v.keys[i], "'") \/ Tem(v.keys[i], "\"") \/ Tem(v.keys[i], "\\")
    \/ \E i \in 1..Len(v.items) : QuebraAspas(v.items[i])

\* A value of the list is True, False or None.
RECURSIVE TemLiteral(_)
TemLiteral(v) ==
    \/ v.t \in {"bool", "None"}
    \/ \E i \in 1..Len(v.items) : TemLiteral(v.items[i])

\* The fields of a container.
CampoBitLength(arq) == FromBytesLittle(SubSeq(arq, 1, 4))
CampoPayload(arq) == SubSeq(arq, 5, PosTableLen(arq))
CampoTableLen(arq) ==
    FromBytesLittle(SubSeq(arq, PosTableLen(arq) + 1, PosTableLen(arq) + 4))
CampoTabela(arq) == LerBinario(arq, 0).cod

SemFalhas == falha_w = 0 /\ falha_r = 0 /\ truncado = "nao"

\* C1: a list of records whose values are JSON-representable and hold no
\* quote character is compacted with success, and decompacting the bytes
\* written returns success and a list equal to the one compacted.
C1_RoundTrip ==
    (pc # "inicio" /\ SemFalhas /\ ~QuebraAspas(lista)) =>
        /\ ret_c.ret = SUCESSO
        /\ pc = "descompactado" =>
              ret_d.cod = SUCESSO /\ ret_d.val = lista

\* The lists that do round-trip: those without True, False and None.
C1_SemLiterais ==
    (pc # "inicio" /\ SemFalhas /\ ~QuebraAspas(lista) /\ ~TemLiteral(lista)) =>
        /\ ret_c.ret = SUCESSO
        /\ pc = "descompactado" =>
              ret_d.cod = SUCESSO /\ ret_d.val = lista

\* C3 as stated: compacting the empty list succeeds and writes a container
\* with bit_length 0 and a code table of at most one entry; decompacting it
\* returns success and the empty list.
C3_EmptyOriginal ==
    (pc # "inicio" /\ SemFalhas /\ lista = VList(<<>>)) =>
        /\ ret_c.ret = SUCESSO
        /\ CampoBitLength(arquivo) = 0
        /\ Len(CampoTabela(arquivo).keys) <= 1
        /\ pc = "descompactado" =>
              ret_d.cod = SUCESSO /\ ret_d.val = VList(<<>>)

\* C3 amended: compacting the empty list succeeds and writes a container
\* with bit_length 2 (the two characters of "[]", one bit each) and a code
\* table of exactly two entries; decompacting it returns success and the
\* empty list.
C3_EmptyAmended ==
    (pc # "inicio" /\ SemFalhas /\ lista = VList(<<>>)) =>
        /\ ret_c.ret = SUCESSO
        /\ CampoBitLength(arquivo) = 2
        /\ CampoTabela(arquivo).keys = <<<<"[">>, <<"]">>>>
        /\ pc = "descompactado" =>
              ret_d.cod = SUCESSO /\ ret_d.val = VList(<<>>)

C3_Witness ==
    /\ pc = "descompactado"
    /\ SemFalhas
    /\ lista = VList(<<>>)
    /\ ret_d.cod = SUCESSO
    /\ Len(arquivo) > 8

\* C5: decompacting a valid container whose table_blob lost its last byte
\* does not return success and returns the format error code.
C5_FormatError ==
    (pc = "descompactado" /\ truncado # "nao" /\ falha_r = 0) =>
        ret_d.cod # SUCESSO /\ ret_d.cod = ERRO_FORMATO_DADOS

\* C6: when a write to the file fails during compactar_lista, or a read
\* fails during descompactar_lista, the function returns ERRO_ARQUIVO.
C6_FileError ==
    /\ (pc # "inicio" /\ falha_w # 0) => ret_c.ret = ERRO_ARQUIVO
    /\ (pc = "descompactado" /\ falha_r # 0) => ret_d.cod = ERRO_ARQUIVO

\* C2: a text of one character repeated n >= 1 times gets a code of exactly
\* one bit for that character, its encoding has n bits, and the text comes
\* back through encode, container write, container read and decode.
C2_SingleSymbol ==
    (Len(texto) >= 1 /\ Cardinality(Simbolos(texto)) = 1) =>
        /\ codA.feito =>
              /\ codA.err = ""
              /\ Len(codA.arv) = 1
              /\ Len(codA.arv[1].c) = 1
        /\ pc = "codificado" =>
              bits.err = "" /\ Len(bits.bits) = Len(texto)
        /\ (pc = "escrito" /\ falha_w = 0) => saida.err = ""
        /\ pc = "decodificado" => saida.texto = texto

\* The table has one entry per symbol of the text, every code is non-empty
\* and no code is a prefix of, or equal to, another.
TabelaBoa(tab) ==
    /\ {tab[k].s : k \in 1..Len(tab)} = {<<c>> : c \in Simbolos(texto)}
    /\ Len(tab) = Cardinality(Simbolos(texto))
    /\ \A k \in 1..Len(tab) : Len(tab[k].c) >= 1
    /\ LivreDePrefixo(tab)

\* C9: for a frequency table of at least two symbols, after every merge the
\* codes inside each node of the heap are pairwise prefix-free, and when the
\* loop has ended the code table has exactly one entry per symbol, every
\* code is non-empty and no code is a prefix of, or equal to, another.
C9_PrefixFree ==
    Cardinality(Simbolos(texto)) >= 2 =>
        /\ \A k \in 1..Len(heapA) : LivreDePrefixo(heapA[k].pares)
        /\ \A k \in 1..Len(heapB) : LivreDePrefixo(heapB[k].pares)
        /\ codA.feito => codA.err = "" /\ TabelaBoa(GerarCodigoHuffman(codA.arv))
        /\ codB.feito => codB.err = "" /\ TabelaBoa(GerarCodigoHuffman(codB.arv))
        /\ pc # "arvore" => TabelaBoa(codigo_huffman)

C9_Witness ==
    /\ pc = "gerado"
    /\ Cardinality(Simbolos(texto)) = 3
    /\ \E i, j \in 1..Len(codigo_huffman) :
           Len(codigo_huffman[i].c) < Len(codigo_huffman[j].c)

\* C4: two builds of the tree over the same frequency table yield the same
\* code for every symbol, in the same order, whatever ties in weight occur
\* during the merges: after the same number of merges the two heaps are
\* equal, the two results are equal, and they are the tree compactar_lista
\* builds for the text, so that the containers written are the same bytes.
C4_Determinism ==
    /\ Len(heapA) = Len(heapB) => heapA = heapB
    /\ (codA.feito /\ codB.feito) => codA = codB
    /\ codA.feito =>
          /\ codA.err = ConstruirArvoreHuffman(CalcularFrequencias(texto)).err
          /\ codA.arv = ConstruirArvoreHuffman(CalcularFrequencias(texto)).arv

\* Both runs have ended on a text where three nodes tied in weight.
C4_Witness ==
    /\ codA.feito
    /\ codB.feito
    /\ codA.err = ""
    /\ Cardinality(Simbolos(texto)) = 3
    /\ \A c \in Simbolos(texto) : Conta(texto, c) = 2

RECURSIVE Pot2(_)
Pot2(e) == IF e = 0 THEN 1 ELSE 2 * Pot2(e - 1)

\* Bit number p, from 1 at the most significant end, of a string of bytes.
BitEm(b, p) == (b[(p - 1) \div 8 + 1] \div Pot2(7 - ((p - 1) % 8))) % 2

\* C10: for a text of at least two distinct symbols, the container written
\* from (encode(text, table), table) holds the bits in ceil(bit_length/8)
\* bytes, most significant bit first; reading it gives back the same bits,
\* leading zeros included, and the same code table; decoding gives back the
\* text.
C10_ContainerRoundTrip ==
    Cardinality(Simbolos(texto)) >= 2 =>
        /\ (pc \in {"escrito", "lido", "decodificado"} /\ falha_w = 0) =>
              LET n == Len(bits.bits)
                  nb == (n + 7) \div 8
                  carga == CampoPayload(arquivo)
              IN  /\ saida.err = ""
                  /\ CampoBitLength(arquivo) = n
                  /\ Len(carga) = nb
                  /\ Len(arquivo) = 4 + nb + 4 + CampoTableLen(arquivo)
                  /\ \A p \in 1..(8 * nb - n) : BitEm(carga, p) = 0
                  /\ \A k \in 1..n :
                         BitEm(carga, 8 * nb - n + k)
                             = (IF bits.bits[k] = "1" THEN 1 ELSE 0)
        /\ (pc \in {"lido", "decodificado"} /\ falha_r = 0) =>
              /\ lido.err = ""
              /\ lido.bits = bits.bits
              /\ TabelaDe(lido.cod).err = ""
              /\ TabelaDe(lido.cod).tab = codigo_huffman
        /\ pc = "decodificado" =>
              saida.texto = texto /\ saida.simbolo_atual = <<>>

\* A payload of two bytes whose first bit is a zero has been read and
\* decoded.
C10_Witness ==
    /\ pc = "decodificado"
    /\ Cardinality(Simbolos(texto)) >= 2
    /\ Len(bits.bits) > 8
    /\ bits.bits[1] = "0"
    /\ Tem(texto, "\"")

SemEntrada(tab, c) == \A k \in 1..Len(tab) : tab[k].s # <<c>>

\* C7: when some character of the text has no entry in the code table,
\* wherever it occurs, encoding fails with the ValueError that is the
\* encoding error and returns no bits; when every character has an entry,
\* encoding does not fail.
C7_UnknownSymbol ==
    pc = "codificado" =>
        IF \E i \in 1..Len(texto) : SemEntrada(codigo_huffman, texto[i])
        THEN bits.err = "ValueError" /\ bits.bits = <<>>
             /\ CodigoCompactar(bits.err) = ERRO_CODIFICACAO
        ELSE bits.err = ""

\* The character without entry is the last of the text, after one that has
\* an entry.
C7_Witness ==
    /\ pc = "codificado"
    /\ Len(texto) = 2
    /\ ~SemEntrada(codigo_huffman, texto[1])
    /\ SemEntrada(codigo_huffman, texto[2])
    /\ bits.err = "ValueError"

\* C8: when the bits are exhausted with a non-empty accumulated prefix that
\* matches no code, decode fails instead of returning the text decoded so
\* far; and decode fails when two symbols of the table have the same code.
C8_DanglingBits ==
    (pc = "decodificado"
     /\ \/ saida.simbolo_atual # <<>>
        \/ \E i, j \in 1..Len(lido.cod.keys) :
               i # j /\ lido.cod.items[i] = lido.cod.items[j]) =>
        saida.err # ""

====
